---- MODULE Spec2Model ----
(***************************************************************************)
(* A model of JavaScriptCore's B3 IR node, B3Value.cpp: the in-place       *)
(* replacement protocol (the replaceWith family), identity-chain folding   *)
(* (foldIdentity, performSubstitution), and the pure analyses typeFor,     *)
(* effects, key and returnsBool.                                           *)
(*                                                                         *)
(* Spec         the graph machine: a procedure of values in basic blocks,  *)
(*              mutated by the replaceWith* family and performSubstitution *)
(* SpecTypeFor  Value::typeFor applied to every opcode and operand types   *)
(* SpecEffects  Value::effects applied to every opcode and payload         *)
(* SpecKey      Value::key applied to pairs of values and compared         *)
(* SpecReturnsBool  Value::returnsBool applied to expressions              *)
(* SpecReplaceWith  Value::replaceWith applied to pairs of values          *)
(***************************************************************************)
EXTENDS Integers, Sequences, FiniteSets, TLC

VARIABLES
    values,          \* address -> the Value stored there (B3Value.h fields)
    blocks,          \* block id -> [values, successors] (the block container)
    pc,              \* where the single compiler thread is
    call,            \* the call in progress or last finished
    frame,           \* locals of foldIdentity / performSubstitution
    assertsEnabled,  \* build flavour: TRUE when ASSERT() is compiled in
    lifetimeDse,     \* build flavour: TRUE when the compiler treats the fields
                     \* of a destroyed object as dead
    fn               \* pure-function harness: [name, args, result]

vars == <<values, blocks, pc, call, frame, assertsEnabled, lifetimeDse, fn>>

(***************************************************************************)
(* Opcodes.  Value::effects() switches over the opcode with no default, so *)
(* its case labels are the whole enumeration.                              *)
(***************************************************************************)
ConstOps == {"Const32", "Const64", "ConstDouble", "ConstFloat"}

CompareOps ==
    {"Equal", "NotEqual", "LessThan", "GreaterThan", "LessEqual", "GreaterEqual",
     "Above", "Below", "AboveEqual", "BelowEqual", "EqualOrUnordered"}

LoadOps == {"Load8Z", "Load8S", "Load16Z", "Load16S", "Load"}

StoreOps == {"Store8", "Store16", "Store"}

AtomicOps ==
    {"AtomicWeakCAS", "AtomicStrongCAS", "AtomicXchgAdd", "AtomicXchgAnd",
     "AtomicXchgOr", "AtomicXchgSub", "AtomicXchgXor", "AtomicXchg"}

TerminalOps == {"Jump", "Branch", "Switch", "Return", "Oops", "EntrySwitch"}

Opcodes ==
    {"Nop", "Identity", "Opaque", "BottomTuple", "SlotBase", "ArgumentReg",
     "FramePointer", "Add", "Sub", "Mul", "Neg", "BitAnd", "BitOr", "BitXor",
     "Shl", "SShr", "ZShr", "RotR", "RotL", "Clz", "Abs", "Ceil", "Floor",
     "Sqrt", "BitwiseCast", "SExt8", "SExt16", "SExt32", "ZExt32", "Trunc",
     "IToD", "IToF", "FloatToDouble", "DoubleToFloat", "Select", "Depend",
     "Extract", "Div", "UDiv", "Mod", "UMod", "WasmAddress", "Fence", "CCall",
     "Patchpoint", "CheckAdd", "CheckSub", "CheckMul", "Check",
     "WasmBoundsCheck", "Upsilon", "Set", "Phi", "Get"}
    \cup ConstOps \cup CompareOps \cup LoadOps \cup StoreOps \cup AtomicOps
    \cup TerminalOps

Types == {"Void", "Int32", "Int64", "Float", "Double", "Tuple"}

\* Kind: the opcode plus its flag bits; traps() is the one B3Value.cpp reads.
Kind(opcode, traps) == [opcode |-> opcode, traps |-> traps]

Kinds == [opcode : Opcodes, traps : BOOLEAN]

\* The outcome of a RELEASE_ASSERT / ASSERT that fails: the process dies.
Fatal == "FATAL"

\* B3 is a 64-bit JIT: pointers are Int64.
pointerType == "Int64"

(***************************************************************************)
(* Value::typeFor(kind, firstChild, secondChild).  The children are given  *)
(* by their types.  asserts: whether ASSERT() is compiled in.              *)
(***************************************************************************)
typeForSwitch(kind, firstChild, secondChild, asserts) ==
    CASE kind.opcode \in
            {"Identity", "Opaque", "Add", "Sub", "Mul", "Div", "UDiv", "Mod",
             "UMod", "Neg", "BitAnd", "BitOr", "BitXor", "Shl", "SShr", "ZShr",
             "RotR", "RotL", "Clz", "Abs", "Ceil", "Floor", "Sqrt", "CheckAdd",
             "CheckSub", "CheckMul", "Depend"} -> firstChild
      [] kind.opcode = "FramePointer" -> pointerType
      [] kind.opcode \in
            {"SExt8", "SExt16", "Equal", "NotEqual", "LessThan", "GreaterThan",
             "LessEqual", "GreaterEqual", "Above", "Below", "AboveEqual",
             "BelowEqual", "EqualOrUnordered"} -> "Int32"
      [] kind.opcode = "Trunc" ->
            IF firstChild = "Int64" THEN "Int32" ELSE "Float"
      [] kind.opcode \in {"SExt32", "ZExt32"} -> "Int64"
      [] kind.opcode \in {"FloatToDouble", "IToD"} -> "Double"
      [] kind.opcode \in {"DoubleToFloat", "IToF"} -> "Float"
      [] kind.opcode = "BitwiseCast" ->
            CASE firstChild = "Int64" -> "Double"
              [] firstChild = "Double" -> "Int64"
              [] firstChild = "Int32" -> "Float"
              [] firstChild = "Float" -> "Int32"
              [] OTHER -> IF asserts THEN Fatal ELSE "Void"
      [] kind.opcode \in
            {"Nop", "Jump", "Branch", "Return", "Oops", "EntrySwitch",
             "WasmBoundsCheck"} -> "Void"
      [] kind.opcode = "Select" -> secondChild
      [] OTHER -> Fatal

\* A slip in the Select case: the type of the first child (the condition).
typeFor_SelectFirstChild(kind, firstChild, secondChild, asserts) ==
    IF kind.opcode = "Select"
    THEN firstChild
    ELSE typeForSwitch(kind, firstChild, secondChild, asserts)

typeFor(kind, firstChild, secondChild, asserts) ==
    typeForSwitch(kind, firstChild, secondChild, asserts)

\* The opcodes typeFor has a case for.
HasTypeForRule(opcode) ==
    typeFor(Kind(opcode, FALSE), "Int32", "Int32", FALSE) # Fatal

(***************************************************************************)
(* The pure-function harness.  fn.result is empty until the call has       *)
(* returned.  The graph variables are parked while a harness runs.         *)
(***************************************************************************)
Pending == <<>>

Returned(result) == <<result>>

NoFn == [name |-> "none", args |-> <<>>, result |-> Pending]

FnReturned(name) == fn.name = name /\ Len(fn.result) = 1

FnResult == fn.result[1]

Parked ==
    /\ values = <<>>
    /\ blocks = <<>>
    /\ pc = "fn"
    /\ call = <<>>
    /\ frame = <<>>

InitTypeFor ==
    /\ Parked
    /\ assertsEnabled \in BOOLEAN
    /\ lifetimeDse \in {FALSE}
    /\ \E kind \in Kinds, firstChild \in Types, secondChild \in Types :
          fn = [name |-> "typeFor",
                args |-> [kind |-> kind, firstChild |-> firstChild,
                          secondChild |-> secondChild],
                result |-> Pending]

CallTypeFor ==
    /\ fn.name = "typeFor"
    /\ fn.result = Pending
    /\ fn' = [fn EXCEPT !.result =
                 Returned(typeFor(fn.args.kind, fn.args.firstChild,
                                  fn.args.secondChild, assertsEnabled))]
    /\ UNCHANGED <<values, blocks, pc, call, frame, assertsEnabled, lifetimeDse>>

NextTypeFor == CallTypeFor

SpecTypeFor == InitTypeFor /\ [][NextTypeFor]_vars

\* The operand types of C9: the four value types.
NumberTypes == {"Int32", "Int64", "Float", "Double"}

TypeForReturned ==
    /\ FnReturned("typeFor")
    /\ fn.args.firstChild \in NumberTypes
    /\ fn.args.secondChild \in NumberTypes

\* "unary/binary arithmetic and bit ops"
ArithmeticAndBitOps ==
    {"Add", "Sub", "Mul", "Div", "UDiv", "Mod", "UMod", "Neg", "BitAnd",
     "BitOr", "BitXor", "Shl", "SShr", "ZShr", "RotR", "RotL", "Clz", "Abs",
     "Ceil", "Floor", "Sqrt"}

\* The rule table of C9 for the opcode classes it names, the terminators in
\* `terminators' returning Void.
TypeForTable(op, first, second, result, terminators) ==
    /\ op \in ArithmeticAndBitOps => result = first
    /\ op \in CompareOps => result = "Int32"
    /\ op \in {"SExt8", "SExt16"} => result = "Int32"
    /\ op \in {"SExt32", "ZExt32"} => result = "Int64"
    /\ op = "BitwiseCast" =>
          /\ first = "Int64" => result = "Double"
          /\ first = "Double" => result = "Int64"
          /\ first = "Int32" => result = "Float"
          /\ first = "Float" => result = "Int32"
    /\ op = "Select" => result = second
    /\ op \in terminators => result = "Void"

\* The opcodes B3Value.cpp's typeFor has no case for.
NoTypeForRuleOps ==
    ConstOps \cup LoadOps \cup StoreOps \cup AtomicOps
    \cup {"Switch", "Phi", "Upsilon", "Set", "Get", "BottomTuple", "SlotBase",
          "ArgumentReg", "Extract", "WasmAddress", "Fence", "CCall",
          "Patchpoint", "Check"}

\* C9 as stated: typeFor is total, for every opcode and operand types from
\* {Int32, Int64, Float, Double} it returns a type without reaching the fatal
\* path, and the result matches the rule table, every control terminator
\* (Jump, Branch, Switch, Return, Oops, EntrySwitch) returning Void.
C9_TypeForTotalOnEveryOpcode ==
    TypeForReturned =>
        /\ FnResult \in Types
        /\ TypeForTable(fn.args.kind.opcode, fn.args.firstChild,
                        fn.args.secondChild, FnResult, TerminalOps)

\* C9 amended: typeFor depends only on the opcode and the operand types; on
\* operand types from {Int32, Int64, Float, Double} it returns a type for
\* every opcode that has a rule and that type matches the rule table, the
\* terminators Jump, Branch, Return, Oops, EntrySwitch returning Void; for
\* Switch and every other opcode without a rule it reaches the fatal path.
C9_TypeForMatchesRuleTable ==
    TypeForReturned =>
        /\ TypeForTable(fn.args.kind.opcode, fn.args.firstChild,
                        fn.args.secondChild, FnResult,
                        TerminalOps \ {"Switch"})
        /\ fn.args.kind.opcode \notin NoTypeForRuleOps => FnResult \in Types
        /\ fn.args.kind.opcode \in NoTypeForRuleOps => FnResult = Fatal

\* typeFor has returned for a Switch, through the fatal path.
C9_Witness ==
    /\ TypeForReturned
    /\ fn.args.kind.opcode = "Switch"
    /\ FnResult = Fatal

(***************************************************************************)
(* Effects and HeapRange (B3Effects.h, B3HeapRange.h).  A range is the set *)
(* of abstract heap addresses it covers.                                   *)
(***************************************************************************)
MaxAddress == 2

HeapRangeTop == 0 .. (MaxAddress - 1)

HeapRangeEmpty == {}

\* The ranges a memory value can declare: intervals [begin, end).
HeapRanges ==
    {b .. (e - 1) : b \in 0 .. MaxAddress, e \in 0 .. MaxAddress}

HeapRangeJoin(a, b) == a \cup b

\* Effects(): every flag false, both ranges empty.
NoEffects ==
    [terminal |-> FALSE, exitsSideways |-> FALSE, controlDependent |-> FALSE,
     writesLocalState |-> FALSE, readsLocalState |-> FALSE,
     readsPinned |-> FALSE, fence |-> FALSE,
     writes |-> HeapRangeEmpty, reads |-> HeapRangeEmpty]

EffectsForCheck == [NoEffects EXCEPT !.exitsSideways = TRUE]

NoPayload == [tag |-> "none"]

\* MemoryValue / AtomicValue: range(), fenceRange(), hasFence().
MemoryPayloads ==
    [tag : {"memory"}, range : HeapRanges, fenceRange : HeapRanges]

hasFence(payload) == payload.fenceRange # HeapRangeEmpty

\* FenceValue: read, write.
FencePayloads == [tag : {"fence"}, read : HeapRanges, write : HeapRanges]

\* CCallValue / PatchpointValue: the effects the client attached.
AttachedEffects ==
    {NoEffects,
     [NoEffects EXCEPT !.terminal = TRUE, !.exitsSideways = TRUE],
     [NoEffects EXCEPT !.reads = HeapRangeTop, !.writes = HeapRangeTop,
                       !.controlDependent = TRUE]}

EffectsPayloads == [tag : {"effects"}, effects : AttachedEffects]

\* WasmBoundsCheckValue: boundsType().
BoundsPayloads == [tag : {"bounds"}, boundsType : {"Pinned", "Maximum"}]

\* Const32Value and friends: the constant's bits; ArgumentRegValue: the
\* register's index; SlotBaseValue: the slot's index.
MaxLiteral == 1

LiteralPayloads == [tag : {"literal"}, value : 0 .. MaxLiteral]

LiteralOps == ConstOps \cup {"ArgumentReg", "SlotBase"}

\* The payload a value of an opcode carries.
PayloadsOf(opcode) ==
    CASE opcode \in LiteralOps -> LiteralPayloads
      [] opcode \in LoadOps \cup StoreOps \cup AtomicOps -> MemoryPayloads
      [] opcode = "Fence" -> FencePayloads
      [] opcode \in {"CCall", "Patchpoint"} -> EffectsPayloads
      [] opcode = "WasmBoundsCheck" -> BoundsPayloads
      [] OTHER -> {NoPayload}

(***************************************************************************)
(* Value::effects(): the switch over the opcode, then the traps() rule.    *)
(***************************************************************************)
effectsSwitch(v) ==
    LET op == v.kind.opcode
        p == v.payload
    IN
    CASE op \in LoadOps ->
            [NoEffects EXCEPT
                !.reads = p.range,
                !.writes = IF hasFence(p) THEN p.fenceRange ELSE HeapRangeEmpty,
                !.fence = hasFence(p),
                !.controlDependent = TRUE]
      [] op \in StoreOps ->
            [NoEffects EXCEPT
                !.writes = p.range,
                !.reads = IF hasFence(p) THEN p.fenceRange ELSE HeapRangeEmpty,
                !.fence = hasFence(p),
                !.controlDependent = TRUE]
      [] op \in AtomicOps ->
            [NoEffects EXCEPT
                !.reads = HeapRangeJoin(p.range, p.fenceRange),
                !.writes = HeapRangeJoin(p.range, p.fenceRange),
                !.fence = hasFence(p),
                !.controlDependent = TRUE]
      [] op \in {"Div", "UDiv", "Mod", "UMod"} ->
            [NoEffects EXCEPT !.controlDependent = TRUE]
      [] op = "WasmAddress" -> [NoEffects EXCEPT !.readsPinned = TRUE]
      [] op = "Fence" ->
            [NoEffects EXCEPT !.reads = p.read, !.writes = p.write,
                              !.fence = TRUE]
      [] op \in {"CCall", "Patchpoint"} -> p.effects
      [] op \in {"CheckAdd", "CheckSub", "CheckMul", "Check"} -> EffectsForCheck
      [] op = "WasmBoundsCheck" ->
            [NoEffects EXCEPT !.readsPinned = (p.boundsType = "Pinned"),
                              !.exitsSideways = TRUE]
      [] op \in {"Upsilon", "Set"} -> [NoEffects EXCEPT !.writesLocalState = TRUE]
      [] op \in {"Phi", "Get"} -> [NoEffects EXCEPT !.readsLocalState = TRUE]
      [] op \in {"Jump", "Branch", "Switch", "Return", "Oops", "EntrySwitch"} ->
            [NoEffects EXCEPT !.terminal = TRUE]
      [] OTHER -> NoEffects

\* The traps() rule left out: the switch's result as it is.
effects_withoutTrapsRule(v) == effectsSwitch(v)

effects(v) ==
    IF v.kind.traps
    THEN [effectsSwitch(v) EXCEPT !.exitsSideways = TRUE, !.reads = HeapRangeTop]
    ELSE effectsSwitch(v)

\* Value::numChildrenForKind, for the fixed-arity opcodes.
numChildrenOf(opcode) ==
    CASE opcode \in {"Select", "AtomicWeakCAS", "AtomicStrongCAS"} -> 3
      [] opcode \in
            {"Add", "Sub", "Mul", "Div", "UDiv", "Mod", "UMod", "BitAnd",
             "BitOr", "BitXor", "Shl", "SShr", "ZShr", "RotR", "RotL",
             "CheckAdd", "CheckSub", "CheckMul", "AtomicXchgAdd",
             "AtomicXchgAnd", "AtomicXchgOr", "AtomicXchgSub", "AtomicXchgXor",
             "AtomicXchg"} \cup CompareOps \cup StoreOps -> 2
      [] opcode \in
            {"Identity", "Opaque", "Neg", "Clz", "Abs", "Ceil", "Floor", "Sqrt",
             "BitwiseCast", "SExt8", "SExt16", "SExt32", "ZExt32", "Trunc",
             "IToD", "IToF", "FloatToDouble", "DoubleToFloat", "Depend",
             "Extract", "Check", "WasmAddress", "WasmBoundsCheck", "Upsilon",
             "Set", "Branch", "Switch", "Return"} \cup LoadOps -> 1
      [] OTHER -> 0

\* The types a value of an opcode is built with.
resultTypesOf(opcode) ==
    CASE opcode \in TerminalOps \cup StoreOps
                    \cup {"Nop", "Upsilon", "Set", "Fence", "Check",
                          "WasmBoundsCheck"} -> {"Void"}
      [] opcode \in CompareOps \cup {"SExt8", "SExt16", "Const32"} -> {"Int32"}
      [] opcode \in {"SExt32", "ZExt32", "Const64", "FramePointer", "SlotBase",
                     "WasmAddress"} -> {"Int64"}
      [] opcode \in {"IToD", "FloatToDouble", "ConstDouble"} -> {"Double"}
      [] opcode \in {"IToF", "DoubleToFloat", "ConstFloat"} -> {"Float"}
      [] opcode \in {"Ceil", "Floor", "Sqrt", "Abs"} -> {"Float", "Double"}
      [] opcode = "BottomTuple" -> {"Tuple"}
      [] OTHER -> {"Int32", "Int64"}

\* The values the harnesses draw a value's operands from: leaves, indexed in
\* allocation order.
NumOperands == 2

OperandHeap == [a \in 1 .. NumOperands |-> [index |-> a - 1]]

InitEffects ==
    /\ Parked
    /\ assertsEnabled \in BOOLEAN
    /\ lifetimeDse \in {FALSE}
    /\ \E kind \in Kinds :
          \E type \in resultTypesOf(kind.opcode),
             children \in [1 .. numChildrenOf(kind.opcode) -> 1 .. NumOperands],
             payload \in PayloadsOf(kind.opcode) :
             fn = [name |-> "effects",
                   args |-> [kind |-> kind, type |-> type,
                             children |-> children, payload |-> payload],
                   result |-> Pending]

CallEffects ==
    /\ fn.name = "effects"
    /\ fn.result = Pending
    /\ fn' = [fn EXCEPT !.result = Returned(effects(fn.args))]
    /\ UNCHANGED <<values, blocks, pc, call, frame, assertsEnabled, lifetimeDse>>

NextEffects == CallEffects

SpecEffects == InitEffects /\ [][NextEffects]_vars

EffectsReturned == FnReturned("effects")

\* "register arithmetic/logic/compare/cast/select opcodes"
RegisterOps ==
    {"Add", "Sub", "Mul", "Neg", "BitAnd", "BitOr", "BitXor", "Shl", "SShr",
     "ZShr", "RotR", "RotL", "Clz", "Abs", "Ceil", "Floor", "Sqrt",
     "BitwiseCast", "SExt8", "SExt16", "SExt32", "ZExt32", "Trunc", "IToD",
     "IToF", "FloatToDouble", "DoubleToFloat", "Select"} \cup CompareOps

\* What C10 says the opcode rule gives: a function of the opcode and the
\* payload, defined for the opcode classes the claim names.
C10_OpcodeRule(op, p) ==
    CASE op \in RegisterOps -> NoEffects
      [] op \in {"Div", "UDiv", "Mod", "UMod"} ->
            [NoEffects EXCEPT !.controlDependent = TRUE]
      [] op \in LoadOps ->
            [NoEffects EXCEPT
                !.reads = p.range, !.controlDependent = TRUE,
                !.writes = IF p.fenceRange # {} THEN p.fenceRange ELSE {},
                !.fence = (p.fenceRange # {})]
      [] op \in StoreOps ->
            [NoEffects EXCEPT
                !.writes = p.range, !.controlDependent = TRUE,
                !.reads = IF p.fenceRange # {} THEN p.fenceRange ELSE {},
                !.fence = (p.fenceRange # {})]
      [] op \in TerminalOps -> [NoEffects EXCEPT !.terminal = TRUE]

C10_NamedOps ==
    RegisterOps \cup {"Div", "UDiv", "Mod", "UMod"} \cup LoadOps \cup StoreOps
    \cup TerminalOps

\* C10: effects() is a function of the opcode, the payload and the traps
\* flag only.  Not trapping, register ops have no effects, Div/UDiv/Mod/UMod
\* only controlDependent, a load reads its range and is controlDependent and
\* writes its fence range with fence set exactly when it has a fence, a store
\* is the same with reads and writes swapped, an atomic reads and writes its
\* range joined with its fence range and is controlDependent, a terminator
\* has only terminal.  Trapping, for every opcode, exitsSideways is true and
\* reads is the whole address space, every other field as without the flag.
C10_EffectsFollowTheRuleTable ==
    EffectsReturned =>
        LET v == fn.args
            op == v.kind.opcode
            plain == effects([v EXCEPT !.kind.traps = FALSE])
        IN
        /\ FnResult =
              effects([kind |-> v.kind, type |-> "Tuple", children |-> <<3>>,
                       payload |-> v.payload])
        /\ op \in C10_NamedOps => plain = C10_OpcodeRule(op, v.payload)
        /\ op \in AtomicOps =>
              /\ plain.reads = v.payload.range \cup v.payload.fenceRange
              /\ plain.writes = v.payload.range \cup v.payload.fenceRange
              /\ plain.controlDependent
        /\ ~v.kind.traps => FnResult = plain
        /\ v.kind.traps =>
              FnResult = [plain EXCEPT !.exitsSideways = TRUE,
                                        !.reads = HeapRangeTop]

\* effects() has returned for a trapping load that has a fence.
C10_Witness ==
    /\ EffectsReturned
    /\ fn.args.kind = Kind("Load", TRUE)
    /\ fn.args.payload.range = {1}
    /\ fn.args.payload.fenceRange = {0}
    /\ FnResult.reads = HeapRangeTop
    /\ FnResult.writes = {0}
    /\ FnResult.fence
    /\ FnResult.exitsSideways

(***************************************************************************)
(* ValueKey (B3ValueKey.h): opcode-and-flags, type and up to three operand *)
(* components, compared component by component.  ValueKey() is the empty,  *)
(* invalid key.                                                            *)
(***************************************************************************)
NoKind == [opcode |-> "none", traps |-> FALSE]

InvalidKey == [kind |-> NoKind, type |-> "Void", operands |-> <<>>]

ValueKey(kind, type, operands) ==
    [kind |-> kind, type |-> type, operands |-> operands]

ValueKeyEquals(k1, k2) ==
    /\ k1.kind = k2.kind
    /\ k1.type = k2.type
    /\ k1.operands = k2.operands

\* A child operand of a key is the child's index.
childIndex(heap, v, i) == heap[v.children[i]].index

(***************************************************************************)
(* Value::key().  heap: address -> Value, to reach the children.           *)
(***************************************************************************)
keySwitch(v, heap) ==
    LET op == v.kind.opcode IN
    CASE op = "FramePointer" -> ValueKey(v.kind, v.type, <<>>)
      [] op \in {"Identity", "Opaque", "Abs", "Ceil", "Floor", "Sqrt", "SExt8",
                 "SExt16", "SExt32", "ZExt32", "Clz", "Trunc", "IToD", "IToF",
                 "FloatToDouble", "DoubleToFloat", "Check", "BitwiseCast",
                 "Neg", "Depend"} ->
            ValueKey(v.kind, v.type, <<childIndex(heap, v, 1)>>)
      [] op \in {"Add", "Sub", "Mul", "Div", "UDiv", "Mod", "UMod", "BitAnd",
                 "BitOr", "BitXor", "Shl", "SShr", "ZShr", "RotR", "RotL",
                 "Equal", "NotEqual", "LessThan", "GreaterThan", "Above",
                 "Below", "AboveEqual", "BelowEqual", "EqualOrUnordered",
                 "CheckAdd", "CheckSub", "CheckMul"} ->
            ValueKey(v.kind, v.type,
                     <<childIndex(heap, v, 1), childIndex(heap, v, 2)>>)
      [] op = "Select" ->
            ValueKey(v.kind, v.type,
                     <<childIndex(heap, v, 1), childIndex(heap, v, 2),
                       childIndex(heap, v, 3)>>)
      [] op \in ConstOps -> ValueKey(Kind(op, FALSE), v.type, <<v.payload.value>>)
      [] op = "BottomTuple" -> ValueKey(Kind(op, FALSE), v.type, <<>>)
      [] op \in {"ArgumentReg", "SlotBase"} ->
            ValueKey(Kind(op, FALSE), v.type, <<v.payload.value>>)
      [] OTHER -> InvalidKey

\* The two-operand case building its key from child(0) alone.
key_dropsSecondChild(v, heap) ==
    LET k == keySwitch(v, heap) IN
    IF v.kind.opcode \notin LiteralOps /\ Len(k.operands) = 2
    THEN [k EXCEPT !.operands = <<k.operands[1]>>]
    ELSE k

key(v, heap) == keySwitch(v, heap)

\* The opcodes whose kind carries the traps flag in the key harness.
TrappingOps == LoadOps \cup StoreOps \cup AtomicOps

KeyHarnessValues ==
    UNION {
        [kind : {k \in Kinds : k.opcode = op /\ (k.traps => op \in TrappingOps)},
         type : resultTypesOf(op),
         children : [1 .. numChildrenOf(op) -> 1 .. NumOperands],
         payload : IF op \in LiteralOps THEN LiteralPayloads
                   ELSE {CHOOSE p \in PayloadsOf(op) : TRUE}]
        : op \in Opcodes }

InitKey ==
    /\ Parked
    /\ assertsEnabled \in {FALSE}
    /\ lifetimeDse \in {FALSE}
    /\ \E a \in KeyHarnessValues, b \in KeyHarnessValues :
          fn = [name |-> "key", args |-> [a |-> a, b |-> b], result |-> Pending]

\* a.key() == b.key() for two distinct values a and b.
CallKey ==
    /\ fn.name = "key"
    /\ fn.result = Pending
    /\ LET ka == key(fn.args.a, OperandHeap)
           kb == key(fn.args.b, OperandHeap)
       IN fn' = [fn EXCEPT !.result =
                    Returned([a |-> ka, b |-> kb, equal |-> ValueKeyEquals(ka, kb)])]
    /\ UNCHANGED <<values, blocks, pc, call, frame, assertsEnabled, lifetimeDse>>

NextKey == CallKey

SpecKey == InitKey /\ [][NextKey]_vars

KeyReturned == FnReturned("key")

\* C8's keyed buckets: zero-operand leaves, one-operand, two-operand
\* (every binary arithmetic, bitwise, shift/rotate, comparison and checked
\* opcode), three-operand Select.
C8_KeyedOps ==
    {"FramePointer", "BottomTuple"}
    \cup {"Identity", "Opaque", "Abs", "Ceil", "Floor", "Sqrt", "SExt8",
          "SExt16", "SExt32", "ZExt32", "Clz", "Trunc", "IToD", "IToF",
          "FloatToDouble", "DoubleToFloat", "Check", "BitwiseCast", "Neg",
          "Depend"}
    \cup {"Add", "Sub", "Mul", "Div", "UDiv", "Mod", "UMod", "BitAnd", "BitOr",
          "BitXor", "Shl", "SShr", "ZShr", "RotR", "RotL", "CheckAdd",
          "CheckSub", "CheckMul"}
    \cup CompareOps
    \cup {"Select"}

\* C8's excluded opcodes: loads, stores, atomics, calls, patchpoints,
\* terminators, local-state ops.
C8_ExcludedOps ==
    LoadOps \cup StoreOps \cup AtomicOps \cup TerminalOps
    \cup {"CCall", "Patchpoint", "Upsilon", "Set", "Phi", "Get"}

\* The opcode, type and operand identities of a value, as C8 compares them.
C8_SameShape(a, b) ==
    /\ a.kind = b.kind
    /\ a.type = b.type
    /\ a.children = b.children

\* C8 as stated: two values of a keyed opcode have equal keys when their
\* opcode, type and operands agree and unequal keys when any of them differs;
\* a value of an excluded opcode has the invalid key, and that key is not
\* equal to the key of any other value.
C8_KeysEqualExactlyOnSameShape ==
    KeyReturned =>
        LET a == fn.args.a
            b == fn.args.b
        IN
        /\ a.kind.opcode \in C8_KeyedOps /\ b.kind.opcode \in C8_KeyedOps =>
              (FnResult.equal <=> C8_SameShape(a, b))
        /\ a.kind.opcode \in C8_ExcludedOps =>
              FnResult.a = InvalidKey /\ ~FnResult.equal

\* The comparisons Value::key() has no case for.
C8_UnkeyedCompareOps == {"LessEqual", "GreaterEqual"}

\* C8 amended: as stated for the keyed opcodes other than LessEqual and
\* GreaterEqual (kinds compared with their flag bits); a value of an excluded
\* opcode, or a LessEqual or GreaterEqual, has the invalid key, which is
\* unequal to the key of every value of a keyed opcode and equal to the
\* invalid key of every other such value.
C8_KeysEqualExactlyOnSameShapeWhenKeyed ==
    KeyReturned =>
        LET a == fn.args.a
            b == fn.args.b
            keyed == C8_KeyedOps \ C8_UnkeyedCompareOps
            unkeyed == C8_ExcludedOps \cup C8_UnkeyedCompareOps
        IN
        /\ a.kind.opcode \in keyed /\ b.kind.opcode \in keyed =>
              (FnResult.equal <=> C8_SameShape(a, b))
        /\ a.kind.opcode \in keyed => FnResult.a # InvalidKey
        /\ a.kind.opcode \in unkeyed =>
              /\ FnResult.a = InvalidKey
              /\ b.kind.opcode \in keyed => ~FnResult.equal
              /\ b.kind.opcode \in unkeyed => FnResult.equal

\* key() has returned for two separately built Add(a, b) values, and for two
\* values of an excluded opcode.
C8_Witness ==
    /\ KeyReturned
    /\ \/ /\ fn.args.a.kind.opcode = "Add"
          /\ fn.args.a.children = <<1, 2>>
          /\ C8_SameShape(fn.args.a, fn.args.b)
          /\ FnResult.equal
          /\ FnResult.a = ValueKey(Kind("Add", FALSE), fn.args.a.type, <<0, 1>>)
       \/ /\ fn.args.a.kind.opcode = "LessEqual"
          /\ fn.args.b.kind.opcode = "Load"
          /\ FnResult.a = InvalidKey
          /\ FnResult.equal

(***************************************************************************)
(* The graph machine.  A procedure holds NumValues values at addresses     *)
(* 1 .. NumValues, laid out in NumBlocks basic blocks.  One compiler       *)
(* thread calls the replaceWith family, foldIdentity and                   *)
(* performSubstitution on them, one call at a time.                        *)
(***************************************************************************)
NumValues == 3

NumBlocks == 2

Addresses == 1 .. NumValues

Blocks == 1 .. NumBlocks

\* A value not yet given an index / not yet inserted in a block.
NoIndex == -1

NoBlock == 0

NoValue == 0

\* foldIdentity's step count is kept up to MaxSteps, one more than any chain
\* that visits no value twice can need.
MaxSteps == NumValues + 1

\* The opcodes whose children live in a growable vector.
isVarArgs(opcode) == opcode \in {"Phi", "Switch", "CCall", "Patchpoint"}

\* Value::Value(kind, type, origin, children...): a fresh plain Value.
Value(kind, type, origin, children) ==
    [index |-> NoIndex, owner |-> NoBlock, kind |-> kind, type |-> type,
     origin |-> origin, children |-> children,
     varArgs |-> isVarArgs(kind.opcode), payload |-> NoPayload]

\* BasicBlock::last()
last(block) == block.values[Len(block.values)]

\* BasicBlock::setSuccessors(FrequentedBlock) / clearSuccessors()
setSuccessors(block, target) == [block EXCEPT !.successors = <<target>>]

clearSuccessors(block) == [block EXCEPT !.successors = <<>>]

\* What a read of an Origin gives where the field no longer holds one: any
\* bit pattern, the one it held before included.
IndeterminateOrigin == -1

(***************************************************************************)
(* Value::~Value(), called in place: the lifetime of the value ends and    *)
(* its storage stays.  A later read of a field is undefined: it finds what *)
(* the field held, or, in a build that treats the fields of a destroyed    *)
(* object as dead, anything.                                               *)
(***************************************************************************)
destroyValue(v) ==
    IF lifetimeDse THEN [v EXCEPT !.origin = IndeterminateOrigin] ELSE v

(***************************************************************************)
(* Value::replaceWith(kind, type, owner[, value]): the index is saved, the *)
(* old value is destroyed and a plain Value built in its place with        *)
(* m_origin, read after the destruction, as its origin; then the saved     *)
(* index and the owner passed in are stored.                               *)
(***************************************************************************)
replaceWith_keepsFreshIndex(v, kind, type, owner, children) ==
    [Value(kind, type, destroyValue(v).origin, children) EXCEPT !.owner = owner]

replaceWith_keepsOldType(v, kind, type, owner, children) ==
    [Value(kind, v.type, destroyValue(v).origin, children) EXCEPT
        !.index = v.index, !.owner = owner]

replaceWith_keepsPayload(v, kind, type, owner, children) ==
    [Value(kind, type, destroyValue(v).origin, children) EXCEPT
        !.index = v.index, !.owner = owner, !.payload = v.payload]

replaceWith(v, kind, type, owner, children) ==
    LET index == v.index
        destroyed == destroyValue(v)
    IN
    [Value(kind, type, destroyed.origin, children) EXCEPT
        !.index = index, !.owner = owner]

\* Value::replaceWithNopIgnoringType()
replaceWithNopIgnoringType_keepsChildren(v) ==
    replaceWith(v, Kind("Nop", FALSE), "Void", v.owner, v.children)

replaceWithNopIgnoringType(v) ==
    replaceWith(v, Kind("Nop", FALSE), "Void", v.owner, <<>>)

(***************************************************************************)
(* The initial procedures: every value built by its constructor with the   *)
(* type typeFor gives, children allocated before their users, blocks       *)
(* filled in address order, owner set on insertion.                        *)
(***************************************************************************)
Leaf(opcode, type, payload) ==
    [kind |-> Kind(opcode, FALSE), type |-> type, children |-> <<>>,
     payload |-> payload]

\* What can be appended to the values g already built.
ShapesAfter(g) ==
    {Leaf("Const32", "Int32", [tag |-> "literal", value |-> MaxLiteral]),
     Leaf("Return", "Void", NoPayload)}
    \cup {[kind |-> Kind("Add", FALSE),
           type |-> typeFor(Kind("Add", FALSE), g[a].type, g[b].type, FALSE),
           children |-> <<a, b>>, payload |-> NoPayload]
          : <<a, b>> \in {x \in (1 .. Len(g)) \X (1 .. Len(g)) :
                            /\ g[x[1]].type \in {"Int32", "Int64"}
                            /\ g[x[1]].type = g[x[2]].type}}
    \cup {[kind |-> Kind("Branch", FALSE), type |-> "Void",
           children |-> <<a>>, payload |-> NoPayload]
          : a \in {x \in 1 .. Len(g) : g[x].type = "Int32"}}

RECURSIVE ShapeLists(_)
ShapeLists(n) ==
    IF n = 0
    THEN {<<>>}
    ELSE {Append(g, v) : <<g, v>> \in
            UNION {{<<h, w>> : w \in ShapesAfter(h)} : h \in ShapeLists(n - 1)}}

\* The ways to cut 1 .. NumValues into NumBlocks non-empty runs.
Layouts ==
    {cuts \in SUBSET (1 .. (NumValues - 1)) : Cardinality(cuts) = NumBlocks - 1}

blockOf(cuts, a) == 1 + Cardinality({c \in cuts : c < a})

valuesOf(cuts, b) ==
    LET members == {a \in Addresses : blockOf(cuts, a) = b}
        first == CHOOSE a \in members : \A m \in members : a <= m
    IN [i \in 1 .. Cardinality(members) |-> first + i - 1]

\* The successors a block is built with: two for a Branch, none otherwise.
initialSuccessors(shape) ==
    IF shape.kind.opcode = "Branch" THEN <<1, NumBlocks>> ELSE <<>>

NoCall ==
    [op |-> "none", self |-> NoValue, target |-> NoValue, block |-> NoBlock,
     to |-> NoBlock, status |-> "none", returned |-> NoValue,
     changed |-> FALSE, steps |-> 0, before |-> <<>>]

NoFrame == [current |-> NoValue, steps |-> 0, i |-> 0, result |-> FALSE]

Init ==
    /\ \E g \in ShapeLists(NumValues), cuts \in Layouts :
          /\ values =
                [a \in Addresses |->
                    [index |-> a - 1, owner |-> blockOf(cuts, a),
                     kind |-> g[a].kind, type |-> g[a].type, origin |-> a,
                     children |-> g[a].children,
                     varArgs |-> isVarArgs(g[a].kind.opcode),
                     payload |-> g[a].payload]]
          /\ blocks =
                [b \in Blocks |->
                    [values |-> valuesOf(cuts, b),
                     successors |->
                        initialSuccessors(g[last([values |-> valuesOf(cuts, b)])])]]
    /\ pc = "idle"
    /\ call = NoCall
    /\ frame = NoFrame
    /\ assertsEnabled \in BOOLEAN
    /\ lifetimeDse \in BOOLEAN
    /\ fn = NoFn

Call(op, self, target, block, to) ==
    [NoCall EXCEPT !.op = op, !.self = self, !.target = target,
                   !.block = block, !.to = to, !.status = "running"]

\* A failed RELEASE_ASSERT or ASSERT: the process dies where it stands.
Abort_silently(c) ==
    /\ pc' = "idle"
    /\ call' = [c EXCEPT !.status = "completed"]
    /\ UNCHANGED <<values, blocks, frame, assertsEnabled, lifetimeDse, fn>>

Abort(c) ==
    /\ pc' = "aborted"
    /\ call' = [c EXCEPT !.status = "aborted"]
    /\ UNCHANGED <<values, blocks, frame, assertsEnabled, lifetimeDse, fn>>

\* The call returns, the value at c.self now being v.
Complete(c, v) ==
    /\ values' = [values EXCEPT ![c.self] = v]
    /\ pc' = "idle"
    /\ call' = [c EXCEPT !.status = "completed"]
    /\ UNCHANGED <<frame, assertsEnabled, lifetimeDse, fn>>

(***************************************************************************)
(* void Value::replaceWithIdentity(Value* value)                           *)
(***************************************************************************)
replaceWithIdentity_targetsItself(self, value) ==
    /\ pc = "idle"
    /\ LET c == Call("replaceWithIdentity", self, value, NoBlock, NoBlock)
           this == values[self]
       IN
       IF this.type # values[value].type
       THEN Abort(c)
       ELSE IF assertsEnabled /\ value = self
       THEN Abort(c)
       ELSE /\ Complete(c, IF this.type = "Void"
                           THEN replaceWithNopIgnoringType(this)
                           ELSE replaceWith(this, Kind("Identity", FALSE),
                                            this.type, this.owner, <<self>>))
            /\ UNCHANGED blocks

replaceWithIdentity(self, value) ==
    /\ pc = "idle"
    /\ LET c == Call("replaceWithIdentity", self, value, NoBlock, NoBlock)
           this == values[self]
       IN
       IF this.type # values[value].type
       THEN Abort(c)
       ELSE IF assertsEnabled /\ value = self
       THEN Abort(c)
       ELSE /\ Complete(c, IF this.type = "Void"
                           THEN replaceWithNopIgnoringType(this)
                           ELSE replaceWith(this, Kind("Identity", FALSE),
                                            this.type, this.owner, <<value>>))
            /\ UNCHANGED blocks

(***************************************************************************)
(* void Value::replaceWithNop()                                            *)
(***************************************************************************)
replaceWithNop(self) ==
    /\ pc = "idle"
    /\ LET c == Call("replaceWithNop", self, NoValue, NoBlock, NoBlock)
           this == values[self]
       IN
       IF this.type # "Void"
       THEN Abort(c)
       ELSE /\ Complete(c, replaceWithNopIgnoringType(this))
            /\ UNCHANGED blocks

(***************************************************************************)
(* void Value::replaceWithPhi()                                            *)
(***************************************************************************)
replaceWithPhi(self) ==
    /\ pc = "idle"
    /\ LET c == Call("replaceWithPhi", self, NoValue, NoBlock, NoBlock)
           this == values[self]
       IN
       /\ Complete(c, IF this.type = "Void"
                      THEN replaceWithNopIgnoringType(this)
                      ELSE replaceWith(this, Kind("Phi", FALSE), this.type,
                                       this.owner, <<>>))
       /\ UNCHANGED blocks

(***************************************************************************)
(* void Value::replaceWithJump(BasicBlock* owner, FrequentedBlock target)  *)
(***************************************************************************)
replaceWithJumpIn_keepsSuccessors(c, owner, target) ==
    LET this == values[c.self] IN
    IF last(blocks[owner]) # c.self
    THEN Abort(c)
    ELSE /\ Complete(c, replaceWith(this, Kind("Jump", FALSE), "Void",
                                    this.owner, <<>>))
         /\ UNCHANGED blocks

replaceWithJumpIn(c, owner, target) ==
    LET this == values[c.self] IN
    IF last(blocks[owner]) # c.self
    THEN Abort(c)
    ELSE /\ Complete(c, replaceWith(this, Kind("Jump", FALSE), "Void",
                                    this.owner, <<>>))
         /\ blocks' = [blocks EXCEPT ![owner] = setSuccessors(@, target)]

replaceWithJump(self, owner, target) ==
    /\ pc = "idle"
    /\ replaceWithJumpIn(Call("replaceWithJump", self, NoValue, owner, target),
                         owner, target)

(***************************************************************************)
(* void Value::replaceWithOops(BasicBlock* owner)                          *)
(***************************************************************************)
replaceWithOopsIn(c, owner) ==
    LET this == values[c.self] IN
    IF last(blocks[owner]) # c.self
    THEN Abort(c)
    ELSE /\ Complete(c, replaceWith(this, Kind("Oops", FALSE), "Void",
                                    this.owner, <<>>))
         /\ blocks' = [blocks EXCEPT ![owner] = clearSuccessors(@)]

replaceWithOops(self, owner) ==
    /\ pc = "idle"
    /\ replaceWithOopsIn(Call("replaceWithOops", self, NoValue, owner, NoBlock),
                         owner)

(***************************************************************************)
(* void Value::replaceWithJump(FrequentedBlock target)                     *)
(* void Value::replaceWithOops()                                           *)
(***************************************************************************)
replaceWithJumpOwn(self, target) ==
    /\ pc = "idle"
    /\ replaceWithJumpIn(
          Call("replaceWithJump", self, NoValue, NoBlock, target),
          values[self].owner, target)

replaceWithOopsOwn(self) ==
    /\ pc = "idle"
    /\ replaceWithOopsIn(
          Call("replaceWithOops", self, NoValue, NoBlock, NoBlock),
          values[self].owner)

(***************************************************************************)
(* Value* Value::foldIdentity() const, one loop iteration per step.        *)
(* The loop also runs inside performSubstitution.                          *)
(***************************************************************************)
foldIdentityBegin(self) ==
    /\ pc = "idle"
    /\ pc' = "foldIdentity"
    /\ call' = Call("foldIdentity", self, NoValue, NoBlock, NoBlock)
    /\ frame' = [NoFrame EXCEPT !.current = self]
    /\ UNCHANGED <<values, blocks, assertsEnabled, lifetimeDse, fn>>

\* while (current->opcode() == Identity) current = current->child(0);
foldIdentityNext_doesNotAdvance(f) ==
    [f EXCEPT !.steps = IF f.steps < MaxSteps THEN f.steps + 1 ELSE MaxSteps]

foldIdentityNext(f) ==
    [f EXCEPT !.current = values[f.current].children[1],
              !.steps = IF f.steps < MaxSteps THEN f.steps + 1 ELSE MaxSteps]

foldIdentityLoop ==
    /\ pc \in {"foldIdentity", "performSubstitution:foldIdentity"}
    /\ values[frame.current].kind.opcode = "Identity"
    /\ frame' = foldIdentityNext(frame)
    /\ UNCHANGED <<values, blocks, pc, call, assertsEnabled, lifetimeDse, fn>>

\* return current;
foldIdentityReturn ==
    /\ pc = "foldIdentity"
    /\ values[frame.current].kind.opcode # "Identity"
    /\ pc' = "idle"
    /\ call' = [call EXCEPT !.status = "completed",
                            !.returned = frame.current,
                            !.steps = frame.steps]
    /\ frame' = NoFrame
    /\ UNCHANGED <<values, blocks, assertsEnabled, lifetimeDse, fn>>

(***************************************************************************)
(* bool Value::performSubstitution(), one child per step.                  *)
(***************************************************************************)
performSubstitutionBegin(self) ==
    /\ pc = "idle"
    /\ pc' = "performSubstitution"
    /\ call' = [Call("performSubstitution", self, NoValue, NoBlock, NoBlock)
                  EXCEPT !.before = values[self].children]
    /\ frame' = [NoFrame EXCEPT !.i = 1]
    /\ UNCHANGED <<values, blocks, assertsEnabled, lifetimeDse, fn>>

\* if (child->opcode() == Identity) { result = true; ... child->foldIdentity()
performSubstitutionFold ==
    /\ pc = "performSubstitution"
    /\ frame.i <= Len(values[call.self].children)
    /\ LET child == values[call.self].children[frame.i] IN
       /\ values[child].kind.opcode = "Identity"
       /\ frame' = [frame EXCEPT !.result = TRUE, !.current = child, !.steps = 0]
    /\ pc' = "performSubstitution:foldIdentity"
    /\ UNCHANGED <<values, blocks, call, assertsEnabled, lifetimeDse, fn>>

\* the child is not an Identity: on to the next child
performSubstitutionSkip ==
    /\ pc = "performSubstitution"
    /\ frame.i <= Len(values[call.self].children)
    /\ values[values[call.self].children[frame.i]].kind.opcode # "Identity"
    /\ frame' = [frame EXCEPT !.i = frame.i + 1]
    /\ UNCHANGED <<values, blocks, pc, call, assertsEnabled, lifetimeDse, fn>>

\* child = child->foldIdentity(); with the fold returned
assignChild_keepsChild(v, i, target) == v

assignChild(v, i, target) == [v EXCEPT !.children[i] = target]

performSubstitutionAssign ==
    /\ pc = "performSubstitution:foldIdentity"
    /\ values[frame.current].kind.opcode # "Identity"
    /\ values' = [values EXCEPT
                     ![call.self] = assignChild(@, frame.i, frame.current)]
    /\ frame' = [frame EXCEPT !.i = frame.i + 1, !.current = NoValue,
                              !.steps = 0]
    /\ pc' = "performSubstitution"
    /\ UNCHANGED <<blocks, call, assertsEnabled, lifetimeDse, fn>>

\* return result;
performSubstitutionReturn ==
    /\ pc = "performSubstitution"
    /\ frame.i > Len(values[call.self].children)
    /\ pc' = "idle"
    /\ call' = [call EXCEPT !.status = "completed", !.changed = frame.result]
    /\ frame' = NoFrame
    /\ UNCHANGED <<values, blocks, assertsEnabled, lifetimeDse, fn>>

Next ==
    \/ \E self \in Addresses, value \in Addresses : replaceWithIdentity(self, value)
    \/ \E self \in Addresses : replaceWithNop(self)
    \/ \E self \in Addresses : replaceWithPhi(self)
    \/ \E self \in Addresses, owner \in Blocks, target \in Blocks :
          replaceWithJump(self, owner, target)
    \/ \E self \in Addresses, owner \in Blocks : replaceWithOops(self, owner)
    \/ \E self \in Addresses, target \in Blocks : replaceWithJumpOwn(self, target)
    \/ \E self \in Addresses : replaceWithOopsOwn(self)
    \/ \E self \in Addresses : foldIdentityBegin(self)
    \/ foldIdentityLoop
    \/ foldIdentityReturn
    \/ \E self \in Addresses : performSubstitutionBegin(self)
    \/ performSubstitutionFold
    \/ performSubstitutionSkip
    \/ performSubstitutionAssign
    \/ performSubstitutionReturn

Spec == Init /\ [][Next]_vars

(***************************************************************************)
(* Properties of the graph machine.                                        *)
(***************************************************************************)
ReplaceOps ==
    {"replaceWithIdentity", "replaceWithNop", "replaceWithPhi",
     "replaceWithJump", "replaceWithOops"}

\* This step is a replaceWith call of operation op that completed.
Completes(op) ==
    /\ pc = "idle"
    /\ pc' = "idle"
    /\ call'.op = op
    /\ call'.status = "completed"

Users(vals, a) ==
    {m \in Addresses : \E i \in 1 .. Len(vals[m].children) : vals[m].children[i] = a}

childType(vals, v, i) ==
    IF i <= Len(v.children) THEN vals[v.children[i]].type ELSE "Void"

TypeAgrees(vals, v) ==
    HasTypeForRule(v.kind.opcode) =>
        v.type = typeFor(v.kind, childType(vals, v, 1), childType(vals, v, 2),
                         FALSE)

TypesAgree(vals) == \A a \in Addresses : TypeAgrees(vals, vals[a])

C2_RetypesUsedValue ==
    /\ Completes("replaceWithJump") \/ Completes("replaceWithOops")
    /\ values[call'.self].type # "Void"
    /\ Users(values, call'.self) \ {call'.self} # {}

C4_PreconditionFails(c) ==
    \/ /\ c.op \in {"replaceWithJump", "replaceWithOops"}
       /\ last(blocks[values[c.self].owner]) # c.self
    \/ /\ c.op = "replaceWithIdentity"
       /\ values[c.self].type # values[c.target].type
    \/ /\ c.op = "replaceWithNop"
       /\ values[c.self].type # "Void"

\* C4: a replaceWithJump or replaceWithOops on a value that is not the last
\* of its owning block, a replaceWithIdentity with a target of another type
\* and a replaceWithNop on a value that is not Void take the fatal path, with
\* every value and every block's successors as they were before the call.
C4_FailedPreconditionAborts ==
    [][pc = "idle" /\ call'.op \in ReplaceOps /\ C4_PreconditionFails(call') =>
          /\ pc' = "aborted"
          /\ call'.status = "aborted"
          /\ values' = values
          /\ blocks' = blocks]_vars

\* replaceWithOops has aborted on a value that is not the last of its block.
C4_Witness ==
    /\ pc = "aborted"
    /\ call.op = "replaceWithOops"
    /\ call.block = NoBlock
    /\ last(blocks[values[call.self].owner]) # call.self
    /\ blocks[values[call.self].owner].successors # <<>>

\* C5: a completed replaceWithJump on n with target t leaves n a Jump of type
\* Void without children and n's owning block with the one successor t; a
\* completed replaceWithOops leaves n an Oops of type Void without children
\* and n's owning block without successors; with the block passed in or not.
C5_TerminatorAndSuccessors ==
    [][/\ Completes("replaceWithJump") =>
             LET n == call'.self IN
             /\ values'[n].kind = Kind("Jump", FALSE)
             /\ values'[n].type = "Void"
             /\ values'[n].children = <<>>
             /\ blocks'[values[n].owner].successors = <<call'.to>>
       /\ Completes("replaceWithOops") =>
             LET n == call'.self IN
             /\ values'[n].kind = Kind("Oops", FALSE)
             /\ values'[n].type = "Void"
             /\ values'[n].children = <<>>
             /\ blocks'[values[n].owner].successors = <<>>]_vars

\* replaceWithJump(owner, target) has completed on a block that had the two
\* successors of a Branch.
C5_Witness ==
    /\ call.op = "replaceWithJump"
    /\ call.status = "completed"
    /\ call.block # NoBlock
    /\ call.to = NumBlocks
    /\ blocks[call.block].successors = <<NumBlocks>>
    /\ values[call.self].kind.opcode = "Jump"

(***************************************************************************)
(* Identity chains, computed on the graph rather than by the running loop. *)
(***************************************************************************)
isIdentity(vals, a) == vals[a].kind.opcode = "Identity"

\* The first value that is not an Identity on the child(0) chain from a, or
\* NoValue when fuel Identity values have been passed without finding one.
RECURSIVE ChainTarget(_, _, _)
ChainTarget(vals, a, fuel) ==
    IF ~isIdentity(vals, a) THEN a
    ELSE IF fuel = 0 THEN NoValue
    ELSE ChainTarget(vals, vals[a].children[1], fuel - 1)

\* A chain that visits no value twice passes fewer than NumValues Identities.
FoldTarget(vals, a) == ChainTarget(vals, a, NumValues)

ChainEnds(vals, a) == FoldTarget(vals, a) # NoValue

\* The number of Identity values on a chain that ends.
RECURSIVE ChainLength(_, _)
ChainLength(vals, a) ==
    IF ~isIdentity(vals, a) THEN 0
    ELSE 1 + ChainLength(vals, vals[a].children[1])

\* The value k child(0) steps down the chain from a.
RECURSIVE ChainAt(_, _, _)
ChainAt(vals, a, k) ==
    IF k = 0 \/ ~isIdentity(vals, a) THEN a
    ELSE ChainAt(vals, vals[a].children[1], k - 1)

IdentityValues(vals) == {a \in Addresses : isIdentity(vals, a)}

FoldCompleted ==
    /\ pc = "idle"
    /\ call.op = "foldIdentity"
    /\ call.status = "completed"

\* C6 as stated: foldIdentity on any value terminates, in as many steps as
\* there are Identity values on its chain: a running call has never taken
\* more steps than the graph has Identity values, and a completed one has
\* returned the first value on the chain that is not an Identity.
C6_FoldTerminatesOnAnyValue ==
    /\ pc = "foldIdentity" =>
          frame.steps <= Cardinality(IdentityValues(values))
    /\ FoldCompleted =>
          /\ ~isIdentity(values, call.returned)
          /\ call.returned = FoldTarget(values, call.self)

\* C6 amended: foldIdentity on a value whose child(0) chain reaches a value
\* that is not an Identity returns that value after as many steps as the
\* chain has Identity values, each step moving one value down the chain, and
\* no step of any foldIdentity call changes a value or a block.  (On a chain
\* that never leaves Identity values the call does not return.)
C6_FoldFollowsChainThatEnds ==
    /\ [](pc = "foldIdentity" /\ ChainEnds(values, call.self) =>
             /\ frame.steps <= ChainLength(values, call.self)
             /\ frame.current = ChainAt(values, call.self, frame.steps))
    /\ [](FoldCompleted =>
             /\ ChainEnds(values, call.self)
             /\ ~isIdentity(values, call.returned)
             /\ call.returned = FoldTarget(values, call.self)
             /\ call.steps = ChainLength(values, call.self))
    /\ [][pc = "foldIdentity" => values' = values /\ blocks' = blocks]_vars

\* foldIdentity has returned the end of a chain of two Identity values.
C6_Witness ==
    /\ FoldCompleted
    /\ call.steps = 2
    /\ isIdentity(values, call.self)
    /\ isIdentity(values, values[call.self].children[1])
    /\ call.returned = values[values[call.self].children[1]].children[1]
    /\ ~isIdentity(values, call.returned)

\* The (user, child slot) pairs of the graph that refer to an Identity value.
IdentityEdges(vals) ==
    {<<m, i>> \in Addresses \X (1 .. NumOperands) :
        i <= Len(vals[m].children) /\ isIdentity(vals, vals[m].children[i])}

SubstitutionRunning ==
    pc \in {"performSubstitution", "performSubstitution:foldIdentity"}

SubstitutionCompleted ==
    /\ pc = "idle"
    /\ call.op = "performSubstitution"
    /\ call.status = "completed"

\* What a completed performSubstitution has done to the children its value
\* had when the call began (call.before).
SubstitutionResult ==
    LET n == call.self
        old == call.before
        new == values[n].children
    IN
    /\ Len(new) = Len(old)
    /\ \A i \in 1 .. Len(old) :
          new[i] = IF isIdentity(values, old[i])
                   THEN FoldTarget(values, old[i])
                   ELSE old[i]
    /\ call.changed <=> \E i \in 1 .. Len(old) : isIdentity(values, old[i])
    /\ \A i \in 1 .. Len(new) : ~isIdentity(values, new[i])

\* C7 as stated: performSubstitution on any value replaces each Identity
\* child by its fold target and returns whether it replaced one, and running
\* it terminates: the fold it runs for a child never takes more steps than
\* the graph has Identity values.
C7_SubstitutionTerminatesOnAnyGraph ==
    /\ SubstitutionCompleted => SubstitutionResult
    /\ pc = "performSubstitution:foldIdentity" =>
          frame.steps <= Cardinality(IdentityValues(values))

\* C7 amended: performSubstitution on n, when the child(0) chain of every
\* Identity child of n reaches a value that is not an Identity, replaces each
\* Identity child by the end of its chain in as many steps as the chain has
\* Identity values, leaves every other child, every other value and every
\* block as they were, and returns true exactly when a child was an Identity.
\* A call that replaces a child leaves the graph with fewer references to
\* Identity values, none of them from n, and no call adds one, so calls
\* repeated over such a graph until all return false come to an end with no
\* value having an Identity child.  (On a chain that never leaves Identity
\* values the call does not return.)
C7_SubstitutionFollowsChainsThatEnd ==
    /\ [](SubstitutionCompleted => SubstitutionResult)
    /\ [](/\ pc = "performSubstitution:foldIdentity"
          /\ ChainEnds(values, values[call.self].children[frame.i])
          => LET child == values[call.self].children[frame.i] IN
             /\ frame.steps <= ChainLength(values, child)
             /\ frame.current = ChainAt(values, child, frame.steps))
    /\ [][SubstitutionRunning =>
             /\ blocks' = blocks
             /\ \A m \in Addresses \ {call.self} : values'[m] = values[m]
             /\ values'[call.self] =
                   [values[call.self] EXCEPT
                       !.children = values'[call.self].children]
             /\ IdentityEdges(values') \subseteq IdentityEdges(values)
             /\ values' # values =>
                   /\ IdentityEdges(values') # IdentityEdges(values)
                   /\ values'[call.self].children[frame.i] =
                         FoldTarget(values,
                                    values[call.self].children[frame.i])]_vars

\* performSubstitution has replaced the Identity child of an Identity by the
\* end of its chain and returned true.
C7_Witness ==
    /\ SubstitutionCompleted
    /\ call.changed
    /\ Len(call.before) = 1
    /\ isIdentity(values, call.self)
    /\ isIdentity(values, call.before[1])
    /\ values[call.self].children = <<values[call.before[1]].children[1]>>
    /\ IdentityEdges(values) = {}

(***************************************************************************)
(* bool Value::returnsBool() const, on an expression: a heap of values     *)
(* each built after its children, so that children have lower addresses.   *)
(***************************************************************************)
MaxExprNodes == 3

MaxSample == 2

\* The Int32 values constants and unknown leaves take.
Int32Samples == (-MaxSample) .. MaxSample

RECURSIVE returnsBool(_, _)
returnsBool_BitOrEither(heap, a) ==
    LET v == heap[a]
        op == v.kind.opcode
    IN
    IF v.type # "Int32" THEN FALSE
    ELSE CASE op = "Const32" -> v.payload.value = 0 \/ v.payload.value = 1
           [] op \in {"BitAnd", "BitOr", "BitXor"} ->
                 returnsBool(heap, v.children[1]) \/ returnsBool(heap, v.children[2])
           [] op = "Select" ->
                 returnsBool(heap, v.children[2]) /\ returnsBool(heap, v.children[3])
           [] op = "Identity" -> returnsBool(heap, v.children[1])
           [] op \in CompareOps \cup {"AtomicWeakCAS"} -> TRUE
           [] op = "Phi" -> FALSE
           [] OTHER -> FALSE

returnsBool(heap, a) ==
    LET v == heap[a]
        op == v.kind.opcode
    IN
    IF v.type # "Int32" THEN FALSE
    ELSE CASE op = "Const32" -> v.payload.value = 0 \/ v.payload.value = 1
           [] op = "BitAnd" ->
                 returnsBool(heap, v.children[1]) \/ returnsBool(heap, v.children[2])
           [] op \in {"BitOr", "BitXor"} ->
                 returnsBool(heap, v.children[1]) /\ returnsBool(heap, v.children[2])
           [] op = "Select" ->
                 returnsBool(heap, v.children[2]) /\ returnsBool(heap, v.children[3])
           [] op = "Identity" -> returnsBool(heap, v.children[1])
           [] op \in CompareOps \cup {"AtomicWeakCAS"} -> TRUE
           [] op = "Phi" -> FALSE
           [] OTHER -> FALSE

\* A value as its constructor builds it.
Expr(opcode, type, children, payload) ==
    [kind |-> Kind(opcode, FALSE), type |-> type, children |-> children,
     payload |-> payload]

IntTypes == {"Int32", "Int64"}

\* The values that can be built over the heap h.
ExprsAfter(h) ==
    LET A == 1 .. Len(h)
        sameType == {x \in A \X A : h[x[1]].type = h[x[2]].type}
    IN
    {Expr("Const32", "Int32", <<>>, [tag |-> "literal", value |-> n])
        : n \in Int32Samples}
    \cup {Expr("Const64", "Int64", <<>>, [tag |-> "literal", value |-> 1]),
          Expr("ConstDouble", "Double", <<>>, [tag |-> "literal", value |-> 1]),
          Expr("Phi", "Int32", <<>>, NoPayload)}
    \cup {Expr("Identity", typeFor(Kind("Identity", FALSE), h[a].type, "Void", FALSE),
               <<a>>, NoPayload) : a \in A}
    \cup {Expr(op, typeFor(Kind(op, FALSE), h[x[1]].type, h[x[2]].type, FALSE),
               <<x[1], x[2]>>, NoPayload)
            : <<op, x>> \in {"BitAnd", "BitOr", "BitXor", "Add"}
                            \X {y \in sameType : h[y[1]].type \in IntTypes}}
    \cup {Expr(op, typeFor(Kind(op, FALSE), h[x[1]].type, h[x[2]].type, FALSE),
               <<x[1], x[2]>>, NoPayload)
            : <<op, x>> \in (CompareOps \ {"EqualOrUnordered"})
                            \X {y \in sameType : h[y[1]].type \in IntTypes}}
    \cup {Expr("EqualOrUnordered", "Int32", <<x[1], x[2]>>, NoPayload)
            : x \in {y \in sameType : h[y[1]].type = "Double"}}
    \cup {Expr("Select", typeFor(Kind("Select", FALSE), h[c].type, h[x[1]].type, FALSE),
               <<c, x[1], x[2]>>, NoPayload)
            : <<c, x>> \in {z \in A : h[z].type = "Int32"} \X sameType}
    \cup {Expr("AtomicWeakCAS", "Int32", <<x[1], x[2], ptr>>,
               CHOOSE p \in MemoryPayloads : TRUE)
            : <<x, ptr>> \in {y \in sameType : h[y[1]].type \in IntTypes}
                             \X {z \in A : h[z].type = pointerType}}

RECURSIVE ExprHeaps(_)
ExprHeaps(n) ==
    IF n = 0
    THEN {<<>>}
    ELSE {Append(h, v) : <<h, v>> \in
            UNION {{<<g, w>> : w \in ExprsAfter(g)} : g \in ExprHeaps(n - 1)}}

(***************************************************************************)
(* What the opcodes compute, on two's complement integers.                 *)
(***************************************************************************)
RECURSIVE bitAnd(_, _)
bitAnd(x, y) ==
    IF x = 0 \/ y = 0 THEN 0
    ELSE IF x = -1 THEN y
    ELSE IF y = -1 THEN x
    ELSE (x % 2) * (y % 2) + 2 * bitAnd(x \div 2, y \div 2)

RECURSIVE bitOr(_, _)
bitOr(x, y) ==
    IF x = 0 THEN y
    ELSE IF y = 0 THEN x
    ELSE IF x = -1 \/ y = -1 THEN -1
    ELSE (IF x % 2 = 1 \/ y % 2 = 1 THEN 1 ELSE 0) + 2 * bitOr(x \div 2, y \div 2)

RECURSIVE bitXor(_, _)
bitXor(x, y) ==
    IF x = 0 THEN y
    ELSE IF y = 0 THEN x
    ELSE IF x = -1 /\ y = -1 THEN 0
    ELSE (((x % 2) + (y % 2)) % 2) + 2 * bitXor(x \div 2, y \div 2)

\* x < y with both read as unsigned: a negative pattern is above every
\* non-negative one.
below(x, y) == IF (x < 0) = (y < 0) THEN x < y ELSE y < 0

compare(op, x, y) ==
    CASE op = "Equal" -> x = y
      [] op = "NotEqual" -> x # y
      [] op = "LessThan" -> x < y
      [] op = "GreaterThan" -> x > y
      [] op = "LessEqual" -> x <= y
      [] op = "GreaterEqual" -> x >= y
      [] op = "Above" -> below(y, x)
      [] op = "Below" -> below(x, y)
      [] op = "AboveEqual" -> ~below(x, y)
      [] op = "BelowEqual" -> ~below(y, x)
      [] op = "EqualOrUnordered" -> x = y

\* The value of heap[a] when the leaves without a constant (Phi, and the
\* outcome of AtomicWeakCAS) take the values env gives them.  The sums of an
\* expression of MaxExprNodes values over Int32Samples stay far from the
\* ends of the Int32 range, so Add never wraps here.
RECURSIVE valueOf(_, _, _)
valueOf(heap, env, a) ==
    LET v == heap[a]
        op == v.kind.opcode
        child(i) == valueOf(heap, env, v.children[i])
    IN
    CASE op \in ConstOps -> v.payload.value
      [] op \in {"Phi", "AtomicWeakCAS"} -> env[a]
      [] op = "Identity" -> child(1)
      [] op = "BitAnd" -> bitAnd(child(1), child(2))
      [] op = "BitOr" -> bitOr(child(1), child(2))
      [] op = "BitXor" -> bitXor(child(1), child(2))
      [] op = "Add" -> child(1) + child(2)
      [] op = "Select" -> IF child(1) # 0 THEN child(2) ELSE child(3)
      [] op \in CompareOps ->
            IF compare(op, child(1), child(2)) THEN 1 ELSE 0

\* The assignments to the leaves of heap that have no constant.
Envs(heap) ==
    {env \in [1 .. Len(heap) -> Int32Samples] :
        \A a \in 1 .. Len(heap) :
            CASE heap[a].kind.opcode = "Phi" -> TRUE
              [] heap[a].kind.opcode = "AtomicWeakCAS" -> env[a] \in {0, 1}
              [] OTHER -> env[a] = 0}

InitReturnsBool ==
    /\ Parked
    /\ assertsEnabled \in {FALSE}
    /\ lifetimeDse \in {FALSE}
    /\ \E heap \in ExprHeaps(MaxExprNodes) :
          \E env \in Envs(heap) :
             fn = [name |-> "returnsBool",
                   args |-> [self |-> Len(heap), heap |-> heap, env |-> env],
                   result |-> Pending]

\* self->returnsBool() for the value built last.
CallReturnsBool ==
    /\ fn.name = "returnsBool"
    /\ fn.result = Pending
    /\ fn' = [fn EXCEPT !.result = Returned(returnsBool(fn.args.heap, fn.args.self))]
    /\ UNCHANGED <<values, blocks, pc, call, frame, assertsEnabled, lifetimeDse>>

NextReturnsBool == CallReturnsBool

SpecReturnsBool == InitReturnsBool /\ [][NextReturnsBool]_vars

ReturnsBoolReturned == FnReturned("returnsBool")

\* C11: returnsBool is false for a value whose type is not Int32; for an
\* Int32 value it is true for Const32 0 and 1 and false for other constants,
\* true for BitAnd when an operand returnsBool, for BitOr and BitXor when both
\* do, for Select when child(1) and child(2) do, what child(0) gives for
\* Identity, true for comparisons and AtomicWeakCAS, false for the rest, Phi
\* included; and when it is true the value of the expression is 0 or 1
\* whatever its leaves hold.
C11_ReturnsBoolFollowsRulesAndIsSound ==
    ReturnsBoolReturned =>
        LET heap == fn.args.heap
            v == heap[fn.args.self]
            op == v.kind.opcode
            sub(i) == returnsBool(heap, v.children[i])
        IN
        /\ v.type # "Int32" => ~FnResult
        /\ v.type = "Int32" =>
              /\ op = "Const32" => (FnResult <=> v.payload.value \in {0, 1})
              /\ op = "BitAnd" => (FnResult <=> sub(1) \/ sub(2))
              /\ op \in {"BitOr", "BitXor"} => (FnResult <=> sub(1) /\ sub(2))
              /\ op = "Select" => (FnResult <=> sub(2) /\ sub(3))
              /\ op = "Identity" => (FnResult <=> sub(1))
              /\ op \in CompareOps \cup {"AtomicWeakCAS"} => FnResult
              /\ op \notin {"Const32", "BitAnd", "BitOr", "BitXor", "Select",
                            "Identity", "AtomicWeakCAS"} \cup CompareOps
                    => ~FnResult
        /\ FnResult => valueOf(heap, fn.args.env, fn.args.self) \in {0, 1}

\* returnsBool is true for a BitAnd with one operand that is not a boolean,
\* and the BitAnd evaluates to 1 with that operand odd and negative.
C11_Witness ==
    /\ ReturnsBoolReturned
    /\ FnResult
    /\ LET heap == fn.args.heap
           v == heap[fn.args.self]
       IN
       /\ v.kind.opcode = "BitAnd"
       /\ heap[v.children[1]].kind.opcode = "Phi"
       /\ fn.args.env[v.children[1]] = -1
       /\ heap[v.children[2]].kind.opcode \in CompareOps
       /\ valueOf(heap, fn.args.env, fn.args.self) = 1

(***************************************************************************)
(* Value::replaceWith applied to two values that hold different things,    *)
(* with the same arguments.                                                *)
(***************************************************************************)
\* What the value can hold before the call: opcode, type, children,
\* payload and kind of child storage.
ReplacedShapes ==
    {Expr("Const32", "Int32", <<>>, [tag |-> "literal", value |-> MaxLiteral]),
     Expr("Add", "Int32", <<1, 2>>, NoPayload),
     Expr("Phi", "Int32", <<>>, NoPayload),
     Expr("Load", "Int32", <<1>>, CHOOSE p \in MemoryPayloads : TRUE),
     Expr("Return", "Void", <<>>, NoPayload)}

ReplacedValues ==
    {[index |-> index, owner |-> owner, kind |-> shape.kind, type |-> shape.type,
      origin |-> origin, children |-> shape.children,
      varArgs |-> isVarArgs(shape.kind.opcode), payload |-> shape.payload]
        : shape \in ReplacedShapes, index \in 0 .. (NumValues - 1),
          owner \in Blocks, origin \in 1 .. NumOperands}

\* The arguments the callers in the file pass, the owner left open.
ReplaceWithArguments ==
    {[kind |-> Kind(r[1], FALSE), type |-> r[2], children |-> r[3], owner |-> owner]
        : r \in {<<"Identity", "Int32", <<1>>>>, <<"Identity", "Int32", <<2>>>>,
                 <<"Nop", "Void", <<>>>>, <<"Phi", "Int32", <<>>>>,
                 <<"Jump", "Void", <<>>>>, <<"Oops", "Void", <<>>>>},
          owner \in Blocks}

InitReplaceWith ==
    /\ Parked
    /\ assertsEnabled \in {FALSE}
    /\ lifetimeDse \in BOOLEAN
    /\ \E a \in ReplacedValues, b \in ReplacedValues, r \in ReplaceWithArguments :
          fn = [name |-> "replaceWith",
                args |-> [a |-> a, b |-> b, kind |-> r.kind, type |-> r.type,
                          owner |-> r.owner, children |-> r.children],
                result |-> Pending]

CallReplaceWith ==
    /\ fn.name = "replaceWith"
    /\ fn.result = Pending
    /\ LET g == fn.args IN
       fn' = [fn EXCEPT !.result = Returned(
                [a |-> replaceWith(g.a, g.kind, g.type, g.owner, g.children),
                 b |-> replaceWith(g.b, g.kind, g.type, g.owner, g.children)])]
    /\ UNCHANGED <<values, blocks, pc, call, frame, assertsEnabled, lifetimeDse>>

NextReplaceWith == CallReplaceWith

SpecReplaceWith == InitReplaceWith /\ [][NextReplaceWith]_vars

ReplaceWithReturned == FnReturned("replaceWith")

\* The replaced value has the kind, type, children and owner asked for, the
\* index it had, and the payload and child storage of a fresh value.
C12_AsRequested(before, after) ==
    /\ after.kind = fn.args.kind
    /\ after.type = fn.args.type
    /\ after.children = fn.args.children
    /\ after.owner = fn.args.owner
    /\ after.index = before.index
    /\ after.payload = NoPayload
    /\ after.varArgs = isVarArgs(fn.args.kind.opcode)

\* C12 as stated: replaceWith carries over the index and the owner and
\* nothing else: with the same arguments, two values that held different
\* things end up equal in every field but the index, the origin included.
C12_OnlyIndexAndOwnerCarriedOver ==
    ReplaceWithReturned =>
        /\ C12_AsRequested(fn.args.a, FnResult.a)
        /\ C12_AsRequested(fn.args.b, FnResult.b)
        /\ [FnResult.a EXCEPT !.index = NoIndex] =
           [FnResult.b EXCEPT !.index = NoIndex]

\* C12 amended: replaceWith carries over the index and the owner and hands
\* the rebuilt value the origin it reads from the destroyed one: the origin
\* the value had, in a build that leaves the fields of a destroyed object
\* readable.  Kind, type and children are the ones asked for, and in every
\* field but index and origin the result does not depend on what the value
\* held before.
C12_IndexOwnerAndOriginCarriedOver ==
    ReplaceWithReturned =>
        /\ C12_AsRequested(fn.args.a, FnResult.a)
        /\ C12_AsRequested(fn.args.b, FnResult.b)
        /\ [FnResult.a EXCEPT !.index = NoIndex, !.origin = IndeterminateOrigin] =
           [FnResult.b EXCEPT !.index = NoIndex, !.origin = IndeterminateOrigin]
        /\ ~lifetimeDse =>
              /\ FnResult.a.origin = fn.args.a.origin
              /\ FnResult.b.origin = fn.args.b.origin

\* A constant and a Phi of different origins have both been replaced by an
\* Identity: payload and child vector are gone, each origin is still there.
C12_Witness ==
    /\ ReplaceWithReturned
    /\ ~lifetimeDse
    /\ fn.args.a.payload # NoPayload
    /\ fn.args.b.varArgs
    /\ fn.args.a.origin # fn.args.b.origin
    /\ fn.args.kind.opcode = "Identity"
    /\ FnResult.a.payload = NoPayload
    /\ ~FnResult.b.varArgs
    /\ FnResult.a.origin = fn.args.a.origin
    /\ FnResult.b.origin = fn.args.b.origin

(***************************************************************************)
(* Cycles of Identity values.                                              *)
(***************************************************************************)
\* The values on the child(0) chain from a: a, and what its Identity values
\* lead to.
ChainValues(vals, a) == {ChainAt(vals, a, k) : k \in 0 .. NumValues}

\* Every chain of Identity values ends at a value that is not an Identity.
NoIdentityCycle(vals) == \A a \in Addresses : ChainEnds(vals, a)

\* C13 as stated: a completed replaceWithIdentity whose target is another
\* value (of the same type, or the call does not complete) leaves a graph
\* without Identity cycle without one.
C13_NoCycleWhenTargetIsAnotherValue ==
    [][/\ NoIdentityCycle(values)
       /\ Completes("replaceWithIdentity")
       /\ call'.target # call'.self
       => NoIdentityCycle(values')]_vars

\* This step completes replaceWithIdentity on a value that the child(0)
\* chain of the target passes through (the target itself included).
C13_TargetLeadsBack ==
    /\ Completes("replaceWithIdentity")
    /\ call'.self \in ChainValues(values, call'.target)

\* C13 amended: starting from a graph with no Identity cycle, every
\* replaceWithIdentity(target) on a value that the child(0) chain of target
\* does not pass through, and every other call of the replaceWith family, of
\* foldIdentity and of performSubstitution, leaves the graph without Identity
\* cycle; there every chain of Identity values reaches a value that is not an
\* Identity without revisiting a value, and the walks of foldIdentity and
\* performSubstitution take fewer steps than there are values.  (A target
\* that is another value of the same type is not enough: replacing a by
\* Identity(b) and then b by Identity(a) makes a cycle.)
C13_NoCycleWhenTargetDoesNotLeadBack ==
    /\ [][NoIdentityCycle(values) /\ ~C13_TargetLeadsBack
             => NoIdentityCycle(values')]_vars
    /\ [](/\ NoIdentityCycle(values)
          /\ pc \in {"foldIdentity", "performSubstitution:foldIdentity"}
          => /\ frame.steps < NumValues
             /\ Cardinality(ChainValues(values, frame.current)) =
                   1 + ChainLength(values, frame.current))

\* replaceWithIdentity has put an Identity in front of an Identity, and the
\* chain of the two ends.
C13_Witness ==
    /\ pc = "idle"
    /\ call.op = "replaceWithIdentity"
    /\ call.status = "completed"
    /\ call.target # call.self
    /\ isIdentity(values, call.self)
    /\ isIdentity(values, call.target)
    /\ values[call.self].children = <<call.target>>
    /\ NoIdentityCycle(values)
    /\ Cardinality(ChainValues(values, call.self)) = 3

====
